---- MODULE Spec2Model ----
(***************************************************************************)
(* State-machine model of transcribe.py: the batch loop of                 *)
(* process_video_folder, extract_audio_from_video, the size classifier of  *)
(* transcribe_audio_manager, and the chunk orchestrator                    *)
(* _split_and_transcribe_audio, one action per step of the code; and       *)
(* sanitize_filename as a function on sequences of characters, with a      *)
(* specification of its own that calls it on any argument.                 *)
(*                                                                         *)
(* Outcomes of the external collaborators (ffmpeg, pydub, the Whisper      *)
(* service, the filesystem) are nondeterministic choices; the filesystem  *)
(* calls os.makedirs, os.remove, shutil.rmtree and open/write may fail     *)
(* with OSError, caught or not as the code has it.                         *)
(***************************************************************************)
EXTENDS Integers, Sequences, FiniteSets, TLC

\* ------------------------------------------------------------------ bounds
MaxVideos == 2
MaxDurationSteps == 3
MaxNameLen == 3

\* --------------------------------------------------------- program constants
WHISPER_API_FILE_SIZE_LIMIT == 25 * 1024 * 1024
DirectThresholdPercent == 98
MinChunkMs == 1000

\* ----------------------------------------------------------- input domains
\* Sanitized base names of the videos of the folder; two different video
\* files (clip.mp4, clip.mkv) may share one base name.
Names == {"a", "b"}

\* (MP3_BITRATE_KBPS, SAFE_CHUNK_SIZE_BYTES) settings: the values of lines
\* 22 and 24, a budget whose chunk length is exactly DurationStep (900000
\* ms), a zero and a negative bitrate, and a budget whose chunk length lands
\* on the 1000 ms floor.
ReferenceConfig == [bitrate |-> 192, budget |-> 24 * 1024 * 1024]
Configs ==
    { ReferenceConfig,
      [bitrate |-> 192,  budget |-> 22736843],
      [bitrate |-> 0,    budget |-> 24 * 1024 * 1024],
      [bitrate |-> -192, budget |-> 24 * 1024 * 1024],
      [bitrate |-> 192,  budget |-> 25264] }

\* Encoded sizes of an exported chunk: the two sizes around the hard ceiling.
ChunkSizes == {WHISPER_API_FILE_SIZE_LIMIT - 1, WHISPER_API_FILE_SIZE_LIMIT}

\* len(audio) in milliseconds, in steps of fifteen minutes.
DurationStep == 15 * 60 * 1000
Durations == {k * DurationStep : k \in 0..MaxDurationSteps}

\* The audio track of a video: its encoded size and its decoded duration.
\* Sizes: a 10-minute track at 192 kbps, the two sizes around 98% of the
\* limit, and the limit itself.  Size and duration are independent: the
\* encoder is not perfectly constant-bitrate and a reused temporary file may
\* have any bitrate.
DirectTracks == {[size |-> s, dur |-> DurationStep] : s \in {14400000, 25690111}}
SplitTracks ==
    {[size |-> 25690112, dur |-> d] : d \in Durations}
        \cup {[size |-> WHISPER_API_FILE_SIZE_LIMIT, dur |-> DurationStep]}
Tracks == DirectTracks \cup SplitTracks

\* Tracks of the videos of a batch of several videos.
BatchTracks == {[size |-> 14400000, dur |-> DurationStep],
                [size |-> 25690112, dur |-> DurationStep]}

\* Temporary audio files an earlier run may have left behind.
StaleTracks == {[size |-> 14400000, dur |-> DurationStep],
                [size |-> 25690112, dur |-> 2 * DurationStep]}

\* Texts the service returns; a text is a sequence of characters.
Texts == {<<>>, <<"a">>}

\* Python's None against a str value.
None == [none |-> TRUE, text |-> <<>>]
Str(s) == [none |-> FALSE, text |-> s]
TranscriberResults == {None} \cup {Str(t) : t \in Texts}

\* Arguments of sanitize_filename: None, or a path of at most MaxNameLen
\* characters: a letter, the dot, the path separator, a forbidden character,
\* the underscore and the space.
Chars == {"a", ".", "/", ":", "_", " "}
FileNames == UNION {[1..n -> Chars] : n \in 0..MaxNameLen}
SanitizeInputs == {None} \cup {Str(t) : t \in FileNames}

\* A temporary audio file: src is the loop position (1-based) of the video
\* it was extracted from, 0 for a file that was there before the run.
NoFile == [exists |-> FALSE, size |-> 0, dur |-> 0, src |-> 0]
AudioFile(track, source) ==
    [exists |-> TRUE, size |-> track.size, dur |-> track.dur, src |-> source]

VARIABLES
    config,                 \* api key present, MP3_BITRATE_KBPS, SAFE_CHUNK_SIZE_BYTES
    video_files_found,      \* the videos of the folder: sanitized base name and track
    video_i,                \* index of the for loop of process_video_folder
    pc,                     \* position of the program
    temp_audio,             \* TEMP_AUDIO_FOLDER/<base>.mp3, per base name
    chunks_subfolder,       \* TEMP_AUDIO_FOLDER/<base>_chunks exists, per base name
    chunk_files,            \* chunk files inside that folder, by chunk index
    transcriptions,         \* TRANSCRIPTION_FOLDER/<base>.txt, per base name
    transcription_text,     \* result of transcribe_audio_manager
    path,                   \* branch taken by transcribe_audio_manager
    audio,                  \* len(audio) of the loaded track, ms
    chunk_length_ms,
    n_chunks,               \* len(audio_chunks)
    i,                      \* chunk index of the for loop
    chunk_size,             \* os.path.getsize of the chunk just exported
    transcription_part,
    full_transcription_parts,
    all_chunks_processed_successfully,
    \* history of the current call of _split_and_transcribe_audio
    split_status,           \* "idle", "running", "returned", "raised"
    abort,                  \* abort point: "none", "load", "plan", "export", "oversize", "transcribe"
    abort_at,               \* chunk index of the abort
    exported,               \* chunk indices whose export succeeded
    submitted,              \* chunk indices handed to the transcriber
    chunk_texts,            \* what the transcriber returned, in call order
    created,                \* line 116: "no" before it ran, then "new" or "existing"
    leftover,               \* chunk files found in the chunk folder at entry
    export_sizes,           \* encoded size of every file sent or exported, in order
    undeleted,              \* chunk indices whose os.remove failed in this call
    rmtree_failed,          \* shutil.rmtree failed in this call
    \* history of the batch
    attempted,              \* loop indices whose processing started
    saved,                  \* text handed to save_transcription, per loop index
    written,                \* loop indices whose transcript file was written in full
    video_status,           \* per loop index: "pending", "extract_failed" (line 281),
                            \* "extracted" (line 262), "cleaned" (os.remove of line 276 ran)
    name,                   \* argument of a call of sanitize_filename
    sanitized_name          \* its return value, None while the call has not returned

diskVars == <<temp_audio, chunks_subfolder, chunk_files, transcriptions>>
orchVars == <<audio, chunk_length_ms, n_chunks, i, chunk_size, transcription_part,
              full_transcription_parts, all_chunks_processed_successfully>>
histVars == <<split_status, abort, abort_at, exported, submitted, chunk_texts, created,
              leftover, export_sizes, undeleted, rmtree_failed>>
batchVars == <<config, video_files_found, video_i, attempted, saved, written, video_status>>
sanitizeVars == <<name, sanitized_name>>
vars == <<batchVars, pc, diskVars, transcription_text, path, orchVars, histVars,
          sanitizeVars>>

MP3_BITRATE_KBPS == config.bitrate
SAFE_CHUNK_SIZE_BYTES == config.budget
openai_api_key == config.key

\* The video of the current loop iteration and its sanitized base name.
video_path == video_files_found[video_i + 1]
video_filename_base == video_path.base

\* ------------------------------------------------------------ pure functions

\* "".join(parts): the separator is missing
RECURSIVE JoinNoSeparator(_)
JoinNoSeparator(parts) ==
    IF parts = <<>> THEN <<>>
    ELSE parts[1] \o JoinNoSeparator(Tail(parts))

\* " ".join(parts)
RECURSIVE Join(_)
Join(parts) ==
    IF parts = <<>> THEN <<>>
    ELSE IF Len(parts) = 1 THEN parts[1]
    ELSE parts[1] \o <<" ">> \o Join(Tail(parts))

\* bytes_per_second_audio = (MP3_BITRATE_KBPS * 1000) / 8.0, positive or not
BytesPerSecondPositive(bitrate) == bitrate * 1000 > 0

\* the chunk length of line 134 without the 0.95 margin
PlanChunkLengthMsNoMargin(bitrate, budget) ==
    (budget * 8) \div bitrate

\* chunk_length_ms = int((SAFE_CHUNK_SIZE_BYTES / bytes_per_second) * 0.95 * 1000)
\* with bytes_per_second = bitrate * 1000 / 8, that is
\* floor(budget * 8 * 0.95 / bitrate) = floor(budget * 38 / (bitrate * 5)),
\* written so that every intermediate value fits a 32-bit integer.
PlanChunkLengthMs(bitrate, budget) ==
    (budget * 38) \div (bitrate * 5)

\* the floor test of line 137 written with < in place of <=
PlanValidFloorInclusive(bitrate, budget) ==
    /\ BytesPerSecondPositive(bitrate)
    /\ PlanChunkLengthMs(bitrate, budget) >= MinChunkMs

\* plan validation of lines 128 and 137
PlanValid(bitrate, budget) ==
    /\ BytesPerSecondPositive(bitrate)
    /\ PlanChunkLengthMs(bitrate, budget) > MinChunkMs

\* a chunk count rounded down: the short last chunk is lost
NumberOfChunksFloor(duration, chunk_length) ==
    duration \div chunk_length

\* len(make_chunks(audio, chunk_length_ms)) = ceil(len(audio) / chunk_length)
NumberOfChunks(duration, chunk_length) ==
    (duration + chunk_length - 1) \div chunk_length

Min(a, b) == IF a <= b THEN a ELSE b

\* audio_chunks = make_chunks(audio, chunk_length_ms) of pydub.utils: the
\* slices audio[k*chunk_length : (k+1)*chunk_length] for k in
\* range(number_of_chunks); a slice past the end of the audio is cut there.
\* A chunk is given by the milliseconds [start, end) it covers.
make_chunks(duration, chunk_length) ==
    [k \in 1..NumberOfChunks(duration, chunk_length) |->
        [start |-> Min((k - 1) * chunk_length, duration),
         end   |-> Min(k * chunk_length, duration)]]

\* a classifier that sends every track directly
FitsDirectAlways(file_size) == TRUE

\* the size test of line 211 written with <= in place of <
FitsDirectInclusive(file_size) ==
    file_size <= (WHISPER_API_FILE_SIZE_LIMIT \div 100) * DirectThresholdPercent

\* file_size < WHISPER_API_FILE_SIZE_LIMIT * 0.98; the limit is a multiple
\* of 100 and the product is exactly 25690112.0 in double arithmetic.
FitsDirect(file_size) ==
    file_size < (WHISPER_API_FILE_SIZE_LIMIT \div 100) * DirectThresholdPercent

\* lines 191-195 without the test of all_chunks_processed_successfully
SplitResultIgnoringFailure(ok, parts) ==
    IF parts # <<>> THEN Str(Join(parts)) ELSE None

\* return value of lines 191-195
SplitResult(ok, parts) ==
    IF ~ok THEN None
    ELSE IF parts # <<>> THEN Str(Join(parts)) ELSE None

\* sanitize_filename, lines 27-40, on sequences of characters

\* the characters of the class [<>:"/\|?*] of line 35
ForbiddenChars == {"<", ">", ":", "\"", "/", "\\", "|", "?", "*"}

\* "untitled" (line 33) and "untitled_video_file" (line 39)
Untitled == <<"u", "n", "t", "i", "t", "l", "e", "d">>
UntitledVideoFile ==
    Untitled \o <<"_", "v", "i", "d", "e", "o", "_", "f", "i", "l", "e">>

\* the last position of character c in s, 0 when there is none
LastIndexOf(s, c) ==
    IF \E k \in 1..Len(s) : s[k] = c
    THEN CHOOSE k \in 1..Len(s) : s[k] = c /\ \A m \in (k + 1)..Len(s) : s[m] # c
    ELSE 0

\* os.path.basename: what follows the last separator
basename(p) == SubSeq(p, LastIndexOf(p, "/") + 1, Len(p))

\* os.path.splitext(p)[0] of a name without separator: the extension starts
\* at the last dot, unless only dots come before it
splitext_root(p) ==
    LET d == LastIndexOf(p, ".")
    IN  IF d > 0 /\ \E k \in 1..(d - 1) : p[k] # "."
        THEN SubSeq(p, 1, d - 1)
        ELSE p

\* re.sub(r'[<>:"/\\|?*]', '_', name)
ReplaceForbidden(s) ==
    [k \in 1..Len(s) |-> IF s[k] \in ForbiddenChars THEN "_" ELSE s[k]]

\* re.sub(r'_+', '_', name)
RECURSIVE CollapseUnderscores(_)
CollapseUnderscores(s) ==
    IF Len(s) <= 1 THEN s
    ELSE IF s[1] = "_" /\ s[2] = "_" THEN CollapseUnderscores(Tail(s))
    ELSE <<s[1]>> \o CollapseUnderscores(Tail(s))

\* name.strip('_ ')
RECURSIVE Strip(_)
Strip(s) ==
    IF s = <<>> THEN s
    ELSE IF s[1] \in {"_", " "} THEN Strip(Tail(s))
    ELSE IF s[Len(s)] \in {"_", " "} THEN Strip(SubSeq(s, 1, Len(s) - 1))
    ELSE s

\* sanitize_filename(name); the argument is None or Str(text), the result is
\* a text
sanitize_filename(arg) ==
    LET given == IF arg = None THEN Untitled ELSE arg.text
        stem == splitext_root(basename(given))
        cleaned == Strip(CollapseUnderscores(ReplaceForbidden(stem)))
    IN  IF cleaned = <<>> THEN UntitledVideoFile ELSE cleaned

\* ---------------------------------------------------------------------- Init
FreshCall ==
    /\ audio = 0
    /\ chunk_length_ms = 0
    /\ n_chunks = 0
    /\ i = 0
    /\ chunk_size = 0
    /\ transcription_part = None
    /\ full_transcription_parts = <<>>
    /\ all_chunks_processed_successfully = TRUE
    /\ split_status = "idle"
    /\ abort = "none"
    /\ abort_at = 0
    /\ exported = {}
    /\ submitted = {}
    /\ chunk_texts = <<>>
    /\ created = "no"
    /\ leftover = {}
    /\ export_sizes = <<>>
    /\ undeleted = {}
    /\ rmtree_failed = FALSE

\* One video in the folder, any configuration, and whatever an earlier run
\* may have left in the temporary folder: a temporary audio file of the
\* same base name, a chunk folder, a chunk file in it.
Init ==
    /\ \E c \in Configs, k \in BOOLEAN :
          config = [key |-> k, bitrate |-> c.bitrate, budget |-> c.budget]
    /\ \E n \in Names, t \in Tracks :
          /\ video_files_found = <<[base |-> n, size |-> t.size, dur |-> t.dur]>>
          /\ \/ temp_audio = [m \in Names |-> NoFile]
             \/ \E st \in StaleTracks :
                   temp_audio = [m \in Names |-> IF m = n THEN AudioFile(st, 0) ELSE NoFile]
          /\ \E folder \in BOOLEAN, files \in {{}, {0}} :
                /\ files # {} => folder
                /\ chunks_subfolder = [m \in Names |-> m = n /\ folder]
                /\ chunk_files = [m \in Names |-> IF m = n THEN files ELSE {}]
    /\ video_i = 0
    /\ pc = "loop"
    /\ transcriptions = [n \in Names |-> None]
    /\ transcription_text = None
    /\ path = "none"
    /\ FreshCall
    /\ attempted = {}
    /\ saved = [v \in 0..(MaxVideos - 1) |-> None]
    /\ written = {}
    /\ video_status = [v \in 0..(MaxVideos - 1) |-> "pending"]
    /\ name = None
    /\ sanitized_name = None

\* A folder of MaxVideos videos, the configuration of lines 20-24, an empty
\* temporary folder (main, lines 309-310).
InitBatch ==
    /\ \E k \in BOOLEAN :
          config = [key |-> k, bitrate |-> ReferenceConfig.bitrate,
                    budget |-> ReferenceConfig.budget]
    /\ \E names \in [1..MaxVideos -> Names], tracks \in [1..MaxVideos -> BatchTracks] :
          video_files_found = [v \in 1..MaxVideos |->
              [base |-> names[v], size |-> tracks[v].size, dur |-> tracks[v].dur]]
    /\ video_i = 0
    /\ pc = "loop"
    /\ temp_audio = [n \in Names |-> NoFile]
    /\ chunks_subfolder = [n \in Names |-> FALSE]
    /\ chunk_files = [n \in Names |-> {}]
    /\ transcriptions = [n \in Names |-> None]
    /\ transcription_text = None
    /\ path = "none"
    /\ FreshCall
    /\ attempted = {}
    /\ saved = [v \in 0..(MaxVideos - 1) |-> None]
    /\ written = {}
    /\ video_status = [v \in 0..(MaxVideos - 1) |-> "pending"]
    /\ name = None
    /\ sanitized_name = None

\* ------------------------------------------------- small steps of the code

\* a key test that never finds the key missing
KeyMissingNever(key) == FALSE

\* if not openai_api_key (line 202)
KeyMissing(key) == ~key

\* a cleanup that removes nothing
RmtreeNothing(folder_exists, ok) == folder_exists

\* shutil.rmtree(chunks_subfolder): the folder is gone when the call succeeds
Rmtree(folder_exists, ok) == IF ok THEN FALSE ELSE folder_exists

\* a chunk file that is never deleted
RemoveNothing(files, idx, ok) == files

\* os.remove(chunk_filename): the file is gone when the call succeeds
Remove(files, idx, ok) == IF ok THEN files \ {idx} ELSE files

\* the size check written with > in place of >=
ChunkTooLargeStrict(size) == size > WHISPER_API_FILE_SIZE_LIMIT

\* os.path.getsize(chunk_filename) >= WHISPER_API_FILE_SIZE_LIMIT
ChunkTooLarge(size) == size >= WHISPER_API_FILE_SIZE_LIMIT

\* the for loop with continue in place of break
LoopNextPcWithoutBreak(ok, next_i, n) == IF next_i < n THEN "export" ELSE "cleanup"

\* the for loop over audio_chunks and its break statements: the position
\* after one iteration that ended ok or not, next_i being the next index
LoopNextPc(ok, next_i, n) == IF ok /\ next_i < n THEN "export" ELSE "cleanup"

\* "if transcription_text:" in place of "is not None"
ShouldSaveTruthy(text) == text # None /\ text.text # <<>>

\* if transcription_text is not None
ShouldSave(text) == text # None

\* the locals and the history of one call of _split_and_transcribe_audio
ResetCall ==
    /\ audio' = 0
    /\ chunk_length_ms' = 0
    /\ n_chunks' = 0
    /\ i' = 0
    /\ chunk_size' = 0
    /\ transcription_part' = None
    /\ full_transcription_parts' = <<>>
    /\ all_chunks_processed_successfully' = TRUE
    /\ split_status' = "idle"
    /\ abort' = "none"
    /\ abort_at' = 0
    /\ exported' = {}
    /\ submitted' = {}
    /\ chunk_texts' = <<>>
    /\ created' = "no"
    /\ leftover' = {}
    /\ export_sizes' = <<>>
    /\ undeleted' = {}
    /\ rmtree_failed' = FALSE

\* ------------------------------------------------------------------ actions

\* process_video_folder, one iteration up to line 262, with
\* extract_audio_from_video: an existing temporary file is reused, else
\* ffmpeg runs; when it fails the partial output is removed, unless that
\* removal fails too.
ExtractAudio ==
    /\ pc = "loop"
    /\ video_i < Len(video_files_found)
    /\ attempted' = attempted \cup {video_i}
    /\ \/ /\ temp_audio[video_filename_base].exists
          /\ video_status' = [video_status EXCEPT ![video_i] = "extracted"]
          /\ pc' = "manage"
          /\ UNCHANGED <<temp_audio, video_i>>
       \/ /\ ~temp_audio[video_filename_base].exists
          /\ temp_audio' = [temp_audio EXCEPT ![video_filename_base] =
                                AudioFile(video_path, video_i + 1)]
          /\ video_status' = [video_status EXCEPT ![video_i] = "extracted"]
          /\ pc' = "manage"
          /\ UNCHANGED video_i
       \/ /\ ~temp_audio[video_filename_base].exists
          /\ \/ UNCHANGED temp_audio
             \/ \E t \in Tracks :
                   /\ t.size <= video_path.size
                   /\ t.dur <= video_path.dur
                   /\ temp_audio' = [temp_audio EXCEPT ![video_filename_base] =
                                         AudioFile(t, video_i + 1)]
          /\ video_status' = [video_status EXCEPT ![video_i] = "extract_failed"]
          /\ video_i' = video_i + 1
          /\ pc' = "loop"
    /\ UNCHANGED sanitizeVars
    /\ UNCHANGED <<config, video_files_found, saved, written,
                   chunks_subfolder, chunk_files, transcriptions,
                   transcription_text, path, orchVars, histVars>>

\* transcribe_audio_manager: no key, direct transcription with
\* _transcribe_single_audio_file, or the split path.
TranscribeAudioManager ==
    /\ pc = "manage"
    /\ \/ /\ KeyMissing(openai_api_key)
          /\ transcription_text' = None
          /\ path' = "nokey"
          /\ pc' = "save"
          /\ UNCHANGED <<submitted, chunk_texts, export_sizes, split_status>>
       \/ /\ ~KeyMissing(openai_api_key)
          /\ FitsDirect(temp_audio[video_filename_base].size)
          /\ \E r \in TranscriberResults :
                /\ transcription_text' = r
                /\ chunk_texts' = <<r>>
          /\ export_sizes' = <<temp_audio[video_filename_base].size>>
          /\ submitted' = {0}
          /\ path' = "direct"
          /\ pc' = "save"
          /\ UNCHANGED split_status
       \/ /\ ~KeyMissing(openai_api_key)
          /\ ~FitsDirect(temp_audio[video_filename_base].size)
          /\ path' = "split"
          /\ split_status' = "running"
          /\ pc' = "split"
          /\ UNCHANGED <<transcription_text, submitted, chunk_texts, export_sizes>>
    /\ UNCHANGED sanitizeVars
    /\ UNCHANGED <<batchVars, diskVars, orchVars, abort, abort_at, exported, created,
                   leftover, undeleted, rmtree_failed>>

\* _split_and_transcribe_audio, lines 114-116: os.makedirs(exist_ok=True)
\* outside any try block.
MakeChunksSubfolder ==
    /\ pc = "split"
    /\ \/ /\ chunks_subfolder' = [chunks_subfolder EXCEPT ![video_filename_base] = TRUE]
          /\ created' = IF chunks_subfolder[video_filename_base] THEN "existing" ELSE "new"
          /\ leftover' = chunk_files[video_filename_base]
          /\ pc' = "load"
          /\ UNCHANGED split_status
       \/ /\ ~chunks_subfolder[video_filename_base]
          /\ split_status' = "raised"
          /\ pc' = "crashed"
          /\ UNCHANGED <<chunks_subfolder, created, leftover>>
    /\ UNCHANGED sanitizeVars
    /\ UNCHANGED <<batchVars, temp_audio, chunk_files, transcriptions, transcription_text,
                   path, orchVars, abort, abort_at, exported, submitted, chunk_texts,
                   export_sizes, undeleted, rmtree_failed>>

\* The early returns of lines 123-124, 130-131 and 141-142: rmtree outside
\* any try block, then return None.
EarlyAbort(reason) ==
    /\ abort' = reason
    /\ \E ok \in BOOLEAN :
          /\ chunks_subfolder' = [chunks_subfolder EXCEPT ![video_filename_base] =
                                     Rmtree(chunks_subfolder[video_filename_base], ok)]
          /\ chunk_files' = [chunk_files EXCEPT ![video_filename_base] =
                                IF ok THEN {} ELSE @]
          /\ rmtree_failed' = ~ok
          /\ split_status' = IF ok THEN "returned" ELSE "raised"
          /\ pc' = IF ok THEN "save" ELSE "crashed"
    /\ transcription_text' = None

\* lines 119-124: AudioSegment.from_mp3
LoadAudio ==
    /\ pc = "load"
    /\ \/ /\ audio' = temp_audio[video_filename_base].dur
          /\ pc' = "plan"
          /\ UNCHANGED <<chunks_subfolder, chunk_files, transcription_text, split_status,
                         abort, rmtree_failed>>
       \/ /\ EarlyAbort("load")
          /\ UNCHANGED audio
    /\ UNCHANGED sanitizeVars
    /\ UNCHANGED <<config, video_files_found, video_i, attempted, saved, written, video_status,
                   temp_audio, transcriptions, path,
                   chunk_length_ms, n_chunks, i, chunk_size, transcription_part,
                   full_transcription_parts, all_chunks_processed_successfully,
                   abort_at, exported, submitted, chunk_texts, created, leftover, export_sizes,
                   undeleted>>

\* lines 126-148: the plan and make_chunks
PlanChunks ==
    /\ pc = "plan"
    /\ \/ /\ PlanValid(MP3_BITRATE_KBPS, SAFE_CHUNK_SIZE_BYTES)
          /\ chunk_length_ms' = PlanChunkLengthMs(MP3_BITRATE_KBPS, SAFE_CHUNK_SIZE_BYTES)
          /\ n_chunks' = Len(make_chunks(audio, chunk_length_ms'))
          /\ pc' = LoopNextPc(TRUE, 0, n_chunks')
          /\ UNCHANGED <<chunks_subfolder, chunk_files, transcription_text, split_status,
                         abort, rmtree_failed>>
       \/ /\ ~PlanValid(MP3_BITRATE_KBPS, SAFE_CHUNK_SIZE_BYTES)
          /\ EarlyAbort("plan")
          /\ UNCHANGED <<chunk_length_ms, n_chunks>>
    /\ UNCHANGED sanitizeVars
    /\ UNCHANGED <<config, video_files_found, video_i, attempted, saved, written, video_status,
                   temp_audio, transcriptions, path,
                   audio, i, chunk_size, transcription_part,
                   full_transcription_parts, all_chunks_processed_successfully,
                   abort_at, exported, submitted, chunk_texts, created, leftover, export_sizes,
                   undeleted>>

\* lines 150-158: export of chunk i; a failed export may leave a partial
\* file behind and breaks out of the loop.
ExportChunk ==
    /\ pc = "export"
    /\ \/ /\ \E s \in ChunkSizes :
                /\ chunk_size' = s
                /\ export_sizes' = Append(export_sizes, s)
          /\ chunk_files' = [chunk_files EXCEPT ![video_filename_base] = @ \cup {i}]
          /\ exported' = exported \cup {i}
          /\ pc' = "size_check"
          /\ UNCHANGED <<all_chunks_processed_successfully, abort, abort_at>>
       \/ /\ \/ UNCHANGED chunk_files
             \/ chunk_files' = [chunk_files EXCEPT ![video_filename_base] = @ \cup {i}]
          /\ all_chunks_processed_successfully' = FALSE
          /\ abort' = "export"
          /\ abort_at' = i
          /\ pc' = LoopNextPc(FALSE, i + 1, n_chunks)
          /\ UNCHANGED <<chunk_size, export_sizes, exported>>
    /\ i' = IF pc' = "export" THEN i + 1 ELSE i
    /\ UNCHANGED sanitizeVars
    /\ UNCHANGED <<batchVars, temp_audio, chunks_subfolder, transcriptions,
                   transcription_text, path, audio, chunk_length_ms, n_chunks,
                   transcription_part, full_transcription_parts,
                   split_status, submitted, chunk_texts, created, leftover, undeleted, rmtree_failed>>

\* lines 160-167: the size check of the exported chunk
CheckChunkSize ==
    /\ pc = "size_check"
    /\ \/ /\ ChunkTooLarge(chunk_size)
          /\ \E ok \in BOOLEAN :
                /\ chunk_files' = [chunk_files EXCEPT ![video_filename_base] = Remove(@, i, ok)]
                /\ undeleted' = IF ok THEN undeleted ELSE undeleted \cup {i}
          /\ all_chunks_processed_successfully' = FALSE
          /\ abort' = "oversize"
          /\ abort_at' = i
          /\ pc' = LoopNextPc(FALSE, i + 1, n_chunks)
       \/ /\ ~ChunkTooLarge(chunk_size)
          /\ pc' = "transcribe"
          /\ UNCHANGED <<chunk_files, undeleted,
                         all_chunks_processed_successfully, abort, abort_at>>
    /\ i' = IF pc' = "export" THEN i + 1 ELSE i
    /\ UNCHANGED sanitizeVars
    /\ UNCHANGED <<config, video_files_found, video_i, attempted, saved, written, video_status,
                   temp_audio, chunks_subfolder, transcriptions,
                   transcription_text, path, audio, chunk_length_ms, n_chunks, chunk_size,
                   transcription_part, full_transcription_parts,
                   split_status, exported, submitted, chunk_texts, created, leftover, export_sizes,
                   rmtree_failed>>

\* line 169 with _transcribe_single_audio_file: text, or None on any error
\* of the request.  The key is not empty here (line 202).
TranscribeChunk ==
    /\ pc = "transcribe"
    /\ \E r \in TranscriberResults :
          /\ transcription_part' = r
          /\ chunk_texts' = Append(chunk_texts, r)
    /\ submitted' = submitted \cup {i}
    /\ pc' = "delete"
    /\ UNCHANGED sanitizeVars
    /\ UNCHANGED <<batchVars, diskVars, transcription_text, path,
                   audio, chunk_length_ms, n_chunks, i, chunk_size,
                   full_transcription_parts, all_chunks_processed_successfully,
                   split_status, abort, abort_at, exported, created, leftover, export_sizes,
                   undeleted, rmtree_failed>>

\* lines 171-181: delete the chunk file, then break on None or append
DeleteChunk ==
    /\ pc = "delete"
    /\ \E ok \in BOOLEAN :
          /\ chunk_files' = [chunk_files EXCEPT ![video_filename_base] = Remove(@, i, ok)]
          /\ undeleted' = IF ok THEN undeleted ELSE undeleted \cup {i}
    /\ \/ /\ transcription_part = None
          /\ all_chunks_processed_successfully' = FALSE
          /\ abort' = "transcribe"
          /\ abort_at' = i
          /\ pc' = LoopNextPc(FALSE, i + 1, n_chunks)
          /\ UNCHANGED full_transcription_parts
       \/ /\ transcription_part # None
          /\ full_transcription_parts' = Append(full_transcription_parts, transcription_part.text)
          /\ pc' = LoopNextPc(TRUE, i + 1, n_chunks)
          /\ UNCHANGED <<all_chunks_processed_successfully, abort, abort_at>>
    /\ i' = IF pc' = "export" THEN i + 1 ELSE i
    /\ chunk_size' = 0
    /\ transcription_part' = None
    /\ UNCHANGED sanitizeVars
    /\ UNCHANGED <<config, video_files_found, video_i, attempted, saved, written, video_status,
                   temp_audio, chunks_subfolder, transcriptions,
                   transcription_text, path, audio, chunk_length_ms, n_chunks,
                   split_status, exported, submitted, chunk_texts, created, leftover, export_sizes,
                   rmtree_failed>>

\* lines 183-195: remove the chunk folder (OSError is caught) and return
CleanupChunksSubfolder ==
    /\ pc = "cleanup"
    /\ \/ /\ chunks_subfolder[video_filename_base]
          /\ \E ok \in BOOLEAN :
                /\ chunks_subfolder' = [chunks_subfolder EXCEPT ![video_filename_base] =
                                           Rmtree(@, ok)]
                /\ chunk_files' = [chunk_files EXCEPT ![video_filename_base] =
                                      IF ok THEN {} ELSE @]
                /\ rmtree_failed' = ~ok
       \/ /\ ~chunks_subfolder[video_filename_base]
          /\ UNCHANGED <<chunks_subfolder, chunk_files, rmtree_failed>>
    /\ transcription_text' =
          SplitResult(all_chunks_processed_successfully, full_transcription_parts)
    /\ split_status' = "returned"
    /\ pc' = "save"
    /\ UNCHANGED sanitizeVars
    /\ UNCHANGED <<config, video_files_found, video_i, attempted, saved, written, video_status,
                   temp_audio, transcriptions, path, orchVars,
                   abort, abort_at, exported, submitted, chunk_texts, created,
                   leftover, export_sizes, undeleted>>

\* lines 268-272 with save_transcription: the write succeeds, open fails
\* (the file is untouched), or the write fails after open truncated the
\* file; both errors are caught and logged.
SaveTranscription ==
    /\ pc = "save"
    /\ \/ /\ ShouldSave(transcription_text)
          /\ saved' = [saved EXCEPT ![video_i] = transcription_text]
          /\ \/ /\ transcriptions' = [transcriptions EXCEPT ![video_filename_base] =
                                         transcription_text]
                /\ written' = written \cup {video_i}
             \/ UNCHANGED <<transcriptions, written>>
             \/ /\ transcriptions' = [transcriptions EXCEPT ![video_filename_base] =
                                         Str(<<>>)]
                /\ UNCHANGED written
       \/ /\ ~ShouldSave(transcription_text)
          /\ UNCHANGED <<saved, transcriptions, written>>
    /\ pc' = "remove_audio"
    /\ UNCHANGED sanitizeVars
    /\ UNCHANGED <<config, video_files_found, video_i, attempted, video_status,
                   temp_audio, chunks_subfolder, chunk_files,
                   transcription_text, path, orchVars, histVars>>

\* lines 274-279: delete the extracted audio (OSError is caught), next video
RemoveExtractedAudio ==
    /\ pc = "remove_audio"
    /\ \/ temp_audio' = [temp_audio EXCEPT ![video_filename_base] = NoFile]
       \/ UNCHANGED temp_audio
    /\ video_status' = [video_status EXCEPT ![video_i] = "cleaned"]
    /\ video_i' = video_i + 1
    /\ pc' = "loop"
    /\ transcription_text' = None
    /\ path' = "none"
    /\ ResetCall
    /\ UNCHANGED sanitizeVars
    /\ UNCHANGED <<config, video_files_found, attempted, saved, written,
                   chunks_subfolder, chunk_files, transcriptions>>

\* line 256: the for loop is exhausted
EndOfBatch ==
    /\ pc = "loop"
    /\ video_i = Len(video_files_found)
    /\ pc' = "finished"
    /\ UNCHANGED sanitizeVars
    /\ UNCHANGED <<batchVars, diskVars, transcription_text, path, orchVars, histVars>>

Next ==
    \/ ExtractAudio
    \/ TranscribeAudioManager
    \/ MakeChunksSubfolder
    \/ LoadAudio
    \/ PlanChunks
    \/ ExportChunk
    \/ CheckChunkSize
    \/ TranscribeChunk
    \/ DeleteChunk
    \/ CleanupChunksSubfolder
    \/ SaveTranscription
    \/ RemoveExtractedAudio
    \/ EndOfBatch

Spec == Init /\ [][Next]_vars

SpecBatch == InitBatch /\ [][Next]_vars

\* sanitize_filename on its own: any argument, one call.
InitSanitize ==
    /\ config = [key |-> FALSE, bitrate |-> ReferenceConfig.bitrate,
                 budget |-> ReferenceConfig.budget]
    /\ video_files_found = <<>>
    /\ video_i = 0
    /\ pc = "finished"
    /\ temp_audio = [n \in Names |-> NoFile]
    /\ chunks_subfolder = [n \in Names |-> FALSE]
    /\ chunk_files = [n \in Names |-> {}]
    /\ transcriptions = [n \in Names |-> None]
    /\ transcription_text = None
    /\ path = "none"
    /\ FreshCall
    /\ attempted = {}
    /\ saved = [v \in 0..(MaxVideos - 1) |-> None]
    /\ written = {}
    /\ video_status = [v \in 0..(MaxVideos - 1) |-> "pending"]
    /\ name \in SanitizeInputs
    /\ sanitized_name = None

SanitizeFilename ==
    /\ sanitized_name = None
    /\ sanitized_name' = Str(sanitize_filename(name))
    /\ UNCHANGED <<batchVars, pc, diskVars, transcription_text, path, orchVars, histVars,
                   name>>

NextSanitize == SanitizeFilename

SpecSanitize == InitSanitize /\ [][NextSanitize]_vars

TypeOK ==
    /\ pc \in {"loop", "manage", "split", "load", "plan", "export", "size_check",
               "transcribe", "delete", "cleanup", "save", "remove_audio",
               "finished", "crashed"}
    /\ video_i \in 0..MaxVideos
    /\ i \in 0..n_chunks
    /\ transcription_text \in [none : BOOLEAN, text : Seq({"a", " "})]
    /\ written \subseteq attempted
    /\ \A v \in DOMAIN video_status :
          video_status[v] \in {"pending", "extract_failed", "extracted", "cleaned"}
    /\ name \in SanitizeInputs

\* ------------------------------------------------------------------ claims

\* The chunk container of the current call exists on disk.
ContainerExists == chunks_subfolder[video_filename_base]

\* The chunk files of the container of the current call.
ChunkFilesNow == chunk_files[video_filename_base]

\* The call of _split_and_transcribe_audio returned normally.
Returned == split_status = "returned"

\* The per-chunk texts joined by single spaces, built from the last text
\* backwards.
RECURSIVE SpaceJoined(_)
SpaceJoined(ts) ==
    IF Len(ts) = 0 THEN <<>>
    ELSE IF Len(ts) = 1 THEN ts[1]
    ELSE SpaceJoined(SubSeq(ts, 1, Len(ts) - 1)) \o <<" ">> \o ts[Len(ts)]

\* Every chunk of the track was exported below the hard ceiling and was
\* transcribed successfully.
EveryChunkSucceeded ==
    /\ path = "split"
    /\ pc \notin {"split", "load", "plan"}
    /\ abort \notin {"load", "plan"}
    /\ exported = 0..(n_chunks - 1)
    /\ submitted = 0..(n_chunks - 1)
    /\ Len(export_sizes) = n_chunks
    /\ \A j \in 1..Len(export_sizes) : export_sizes[j] < WHISPER_API_FILE_SIZE_LIMIT
    /\ Len(chunk_texts) = n_chunks
    /\ \A j \in 1..Len(chunk_texts) : chunk_texts[j] # None

\* C1 (as stated): whenever _split_and_transcribe_audio has returned, on
\* the completed path or after any abort, the chunk container does not
\* exist on disk.
C1_ContainerGoneOnReturn ==
    Returned => ~ContainerExists

\* C1 (amended): whenever control has left _split_and_transcribe_audio,
\* the removal of the chunk container was attempted, and the container does
\* not exist unless that removal failed.
C1_ContainerGoneUnlessRmtreeFailed ==
    (split_status \in {"returned", "raised"} /\ ~rmtree_failed) => ~ContainerExists

C1_Witness ==
    /\ Returned
    /\ abort = "transcribe"
    /\ created = "new"
    /\ ~rmtree_failed
    /\ ~ContainerExists

\* C2: once the export of chunk i has failed or the transcription of chunk
\* i has given None, no chunk of a greater index is exported or submitted,
\* the call does not raise, and what it returns is None.
C2_AbortOnChunkFailure ==
    abort \in {"export", "transcribe"} =>
        /\ \A j \in exported \cup submitted : j <= abort_at
        /\ split_status # "raised"
        /\ Returned => transcription_text = None

C2_Witness ==
    /\ Returned
    /\ abort = "transcribe"
    /\ abort_at = 1
    /\ n_chunks = 3
    /\ exported = {0, 1}
    /\ transcription_text = None

\* C3 (as stated): when every chunk was exported below the ceiling and
\* transcribed successfully, the returned value is the texts of the chunks
\* joined by single spaces in index order, for every number of chunks.
C3_ResultIsSpaceJoin ==
    (Returned /\ EveryChunkSucceeded) =>
        transcription_text = Str(SpaceJoined([j \in 1..n_chunks |-> chunk_texts[j].text]))

\* C3 (amended): the same for every track that splits into at least one
\* chunk; a track that splits into no chunk at all gives None.
C3_ResultIsSpaceJoinOfAtLeastOneChunk ==
    (Returned /\ EveryChunkSucceeded) =>
        /\ n_chunks >= 1 =>
              transcription_text = Str(SpaceJoined([j \in 1..n_chunks |-> chunk_texts[j].text]))
        /\ n_chunks = 0 => transcription_text = None

C3_Witness ==
    /\ Returned
    /\ EveryChunkSucceeded
    /\ n_chunks = 3
    /\ chunk_texts = <<Str(<<"a">>), Str(<<>>), Str(<<"a">>)>>
    /\ transcription_text = Str(<<"a", " ", " ", "a">>)

\* C4: no call of _split_and_transcribe_audio ends with an exception that
\* reaches its caller.
C4_NeverRaises ==
    split_status # "raised"

\* C5: when the batch loop has ended, it ended by exhausting the list of
\* videos, and the processing of every video of the folder was attempted.
C5_BatchLoopCompletes ==
    pc \in {"finished", "crashed"} =>
        /\ pc = "finished"
        /\ attempted = 0..(Len(video_files_found) - 1)

\* C6: save_transcription is called for a video of the split path only
\* when every chunk of its track was exported, passed the size check and
\* was transcribed successfully.
C6_SavedOnlyIfEveryPartSucceeded ==
    (pc = "remove_audio" /\ path = "split" /\ saved[video_i] # None) =>
        /\ EveryChunkSucceeded
        /\ n_chunks >= 1
        /\ Len(full_transcription_parts) = n_chunks
        /\ saved[video_i] = transcription_text

C6_Witness ==
    /\ pc = "remove_audio"
    /\ path = "split"
    /\ saved[video_i] # None
    /\ n_chunks = 2
    /\ submitted = {0, 1}

\* C7 (as stated): when the export of chunk i+1 begins, the file of chunk
\* i has been deleted.
C7_PreviousChunkDeleted ==
    (pc = "export" /\ i > 0) => (i - 1) \notin ChunkFilesNow

\* C7 (amended): when the export of chunk i+1 begins, the deletion of the
\* file of chunk i has been attempted; a chunk file other than the one
\* being processed is in the container only if its deletion failed or if
\* it was already there when the call began.
C7_PreviousChunkDeletionAttempted ==
    /\ (pc = "export" /\ i > 0) =>
          /\ (i - 1) \in submitted
          /\ (i - 1) \in ChunkFilesNow => (i - 1) \in undeleted
    /\ (path = "split" /\ split_status = "running" /\ created # "no") =>
          \A j \in ChunkFilesNow :
              \/ j \in undeleted
              \/ j \in leftover /\ j \notin exported
              \/ j = i /\ pc \in {"size_check", "transcribe", "delete"}
              \/ j = abort_at /\ abort = "export"

C7_Witness ==
    /\ pc = "export"
    /\ i = 1
    /\ submitted = {0}
    /\ undeleted = {}
    /\ ChunkFilesNow = {}

\* The plan is rejected: bytes per second not positive, or the computed
\* chunk length at or below the floor.
PlanRejected ==
    \/ MP3_BITRATE_KBPS * 1000 <= 0
    \/ PlanChunkLengthMs(MP3_BITRATE_KBPS, SAFE_CHUNK_SIZE_BYTES) <= MinChunkMs

\* C8 (as stated): a call that ends in the plan-error abort has created no
\* chunk container.
C8_NoContainerOnPlanError ==
    abort = "plan" => created # "new"

\* C8 (amended): when the plan is rejected the call exports and submits no
\* chunk and returns None from the plan-error (or the earlier load-error)
\* abort, but the chunk container was created at entry, before the
\* validation, and the abort removes it before returning.
C8_PlanErrorAbortsAfterContainerCreated ==
    /\ (path = "split" /\ PlanRejected) =>
          /\ n_chunks = 0 /\ exported = {} /\ submitted = {}
          /\ pc \notin {"export", "size_check", "transcribe", "delete", "cleanup"}
          /\ Returned => (abort \in {"load", "plan"} /\ transcription_text = None)
    /\ abort = "plan" =>
          /\ PlanRejected
          /\ created \in {"new", "existing"}
          /\ Returned => ~ContainerExists

C8_Witness ==
    /\ abort = "plan"
    /\ Returned
    /\ created = "new"
    /\ ~ContainerExists
    /\ transcription_text = None

\* C9 (as stated): after the abort on an oversize chunk the file of that
\* chunk is not on disk.
C9_OversizeChunkDiscarded ==
    (Returned /\ abort = "oversize") => abort_at \notin ChunkFilesNow

\* C9 (amended): an exported chunk whose size is not below the hard
\* ceiling is never submitted, no further chunk is exported, the call does
\* not raise and returns None, and the deletion of the chunk's file is
\* attempted: the file is still on disk only if that deletion failed and
\* the removal of the container failed too.
C9_OversizeChunkAborts ==
    path = "split" =>
        \A j \in 1..Len(export_sizes) :
            export_sizes[j] >= WHISPER_API_FILE_SIZE_LIMIT =>
                /\ j = Len(export_sizes)
                /\ exported = 0..(j - 1)
                /\ (j - 1) \notin submitted
                /\ pc \notin {"transcribe", "delete", "export"}
                /\ split_status # "raised"
                /\ pc # "size_check" =>
                      /\ abort = "oversize" /\ abort_at = j - 1
                      /\ (j - 1) \in ChunkFilesNow => (j - 1) \in undeleted
                /\ Returned =>
                      /\ transcription_text = None
                      /\ (j - 1) \in ChunkFilesNow => rmtree_failed

C9_Witness ==
    /\ Returned
    /\ abort = "oversize"
    /\ abort_at = 1
    /\ n_chunks = 3
    /\ submitted = {0}
    /\ ChunkFilesNow = {}
    /\ transcription_text = None

\* The transcription succeeded with empty text: the direct transcription,
\* or every chunk of a track of at least one chunk.
EmptyTextSuccess ==
    /\ pc \in {"save", "remove_audio"}
    /\ \A j \in 1..Len(chunk_texts) : chunk_texts[j] = Str(<<>>)
    /\ \/ path = "direct"
       \/ EveryChunkSucceeded /\ n_chunks >= 1

\* C10 (as stated): when the direct transcription or every chunk
\* transcription succeeds with empty text, transcribe_audio_manager returns
\* the empty string.
C10_EmptyTextGivesEmptyTranscript ==
    EmptyTextSuccess => transcription_text = Str(<<>>)

\* C10 (amended): in that case transcribe_audio_manager returns a
\* transcript, never None: the empty string on the direct path, the
\* n_chunks - 1 separators of the join on the split path; and
\* process_video_folder hands it to save_transcription.
C10_EmptyTextSavedAsTranscript ==
    EmptyTextSuccess =>
        /\ transcription_text # None
        /\ path = "direct" => transcription_text = Str(<<>>)
        /\ path = "split" =>
              transcription_text = Str([k \in 1..(n_chunks - 1) |-> " "])
        /\ pc = "remove_audio" => saved[video_i] = transcription_text

C10_Witness ==
    /\ pc = "remove_audio"
    /\ path = "split"
    /\ EmptyTextSuccess
    /\ n_chunks = 2
    /\ saved[video_i] = Str(<<" ">>)

\* C11 (as stated): a failed cleanup step (os.remove of a chunk file,
\* shutil.rmtree of the chunk container) is never escalated: the call of
\* _split_and_transcribe_audio does not raise and the program goes on.
C11_CleanupFailureNotEscalated ==
    (rmtree_failed \/ undeleted # {}) =>
        /\ split_status # "raised"
        /\ pc # "crashed"

\* The temporary audio file handed to transcribe_audio_manager.
AudioNow == temp_audio[video_filename_base]

\* transcribe_audio_manager has classified the track of the current video.
Classified == pc \notin {"loop", "manage", "finished"}

\* C12: with a key, every track is classified into exactly one path: direct
\* when its byte size s is below 98% of the hard ceiling (50 s < 49 limit),
\* split when it is at or above it; the direct path sends the whole file and
\* never enters the orchestrator, the split path enters it.
C12_ClassifierThreshold ==
    (openai_api_key /\ Classified) =>
        /\ path \in {"direct", "split"}
        /\ path = "direct" <=> 50 * AudioNow.size < 49 * WHISPER_API_FILE_SIZE_LIMIT
        /\ path = "split" <=> 50 * AudioNow.size >= 49 * WHISPER_API_FILE_SIZE_LIMIT
        /\ path = "direct" => split_status = "idle" /\ submitted = {0}
        /\ path = "split" => split_status # "idle"

\* A track of exactly 98% of the ceiling took the split path.
C12_Witness ==
    /\ openai_api_key
    /\ Classified
    /\ path = "split"
    /\ 50 * AudioNow.size = 49 * WHISPER_API_FILE_SIZE_LIMIT

\* C13 (as stated): an invalid bitrate or a budget whose chunk length is at
\* or below the floor ends in the plan-error abort without an exception, and
\* make_chunks never runs with a chunk length at or below the floor.
C13_InvalidPlanNeverCrashes ==
    /\ abort = "plan" => (PlanRejected /\ split_status \in {"running", "returned"})
    /\ pc \in {"export", "size_check", "transcribe", "delete", "cleanup"} =>
          chunk_length_ms > MinChunkMs

\* The planner accepted the plan of the current call: make_chunks ran.
PlanAccepted ==
    /\ path = "split"
    /\ pc \in {"export", "size_check", "transcribe", "delete", "cleanup"}
       \/ (split_status = "returned" /\ abort \notin {"load", "plan"})

\* C14: an accepted chunk length is above the floor and its estimated size
\* chunk_ms / 1000 * bitrate * 1000 / 8 bytes is at most 95% of the safety
\* budget (chunk_ms * bitrate * 5 <= 38 * budget); it is the largest such
\* whole number of milliseconds, so bitrate and budget determine it.
C14_PlannedChunkWithinBudget ==
    PlanAccepted =>
        /\ MP3_BITRATE_KBPS > 0
        /\ chunk_length_ms > MinChunkMs
        /\ chunk_length_ms * MP3_BITRATE_KBPS * 5 <= 38 * SAFE_CHUNK_SIZE_BYTES
        /\ (chunk_length_ms + 1) * MP3_BITRATE_KBPS * 5 > 38 * SAFE_CHUNK_SIZE_BYTES

\* The reference plan (192 kbps, 24 MiB) was accepted and a chunk exported.
C14_Witness ==
    /\ PlanAccepted
    /\ config.bitrate = 192
    /\ config.budget = 24 * 1024 * 1024
    /\ chunk_length_ms = 996147
    /\ exported # {}

\* The list the for loop of line 150 enumerates.
audio_chunks == make_chunks(audio, chunk_length_ms)

\* The whole loop ran: every chunk was exported and transcribed.
LoopCompleted == Returned /\ path = "split" /\ abort = "none"

\* C15: for a track of D ms and an accepted chunk length C, the loop
\* enumerates n = ceil(D / C) chunks ((n - 1) C < D <= n C); the first starts
\* at 0, each next one starts where the one before ends, none is empty, the
\* last ends at D and lasts D - C floor(D / C) when C does not divide D,
\* else C; a completed loop has exported exactly the chunks 0 .. n - 1.
C15_ChunksCoverTrack ==
    PlanAccepted =>
        /\ n_chunks = Len(audio_chunks)
        /\ (n_chunks - 1) * chunk_length_ms < audio
        /\ audio <= n_chunks * chunk_length_ms
        /\ audio = 0 => n_chunks = 0
        /\ \A k \in 1..n_chunks :
              /\ audio_chunks[k].start = IF k = 1 THEN 0 ELSE audio_chunks[k - 1].end
              /\ audio_chunks[k].start < audio_chunks[k].end
              /\ k < n_chunks =>
                    audio_chunks[k].end - audio_chunks[k].start = chunk_length_ms
        /\ n_chunks > 0 =>
              /\ audio_chunks[n_chunks].end = audio
              /\ audio_chunks[n_chunks].end - audio_chunks[n_chunks].start =
                    IF audio % chunk_length_ms # 0
                    THEN audio - chunk_length_ms * (audio \div chunk_length_ms)
                    ELSE chunk_length_ms
        /\ i < n_chunks \/ n_chunks = 0
        /\ exported \subseteq 0..(n_chunks - 1)
        /\ LoopCompleted => exported = 0..(n_chunks - 1)

\* A track of exactly two chunk lengths was cut into two chunks and both
\* were exported.
C15_Witness ==
    /\ PlanAccepted
    /\ LoopCompleted
    /\ audio = 2 * chunk_length_ms
    /\ n_chunks = 2
    /\ exported = {0, 1}

\* TRANSCRIPTION_FOLDER/<base>.txt of the video at loop index v.
OutputFile(v) == video_files_found[v + 1].base

\* C16 (as stated): every video whose transcript was written keeps its own
\* output file: two videos of the batch never write to the same file, and
\* the file of a video holds that video's transcript from then on.
C16_OneOutputFilePerVideo ==
    /\ \A v, w \in written : v # w => OutputFile(v) # OutputFile(w)
    /\ \A v \in written : transcriptions[OutputFile(v)] = saved[v]

\* Positions inside _split_and_transcribe_audio.
InOrchestrator ==
    pc \in {"split", "load", "plan", "export", "size_check", "transcribe", "delete",
            "cleanup"}

\* C17: without an API key the run is extraction-only: nothing is sent to
\* the transcription service, transcribe_audio_manager returns None for
\* every video, no transcript is saved or written, the program does not
\* crash, and every video that has been passed either failed to extract or
\* had its temporary audio removal run; the loop ends only at the end of the
\* list.
C17_NoKeyExtractionOnly ==
    ~openai_api_key =>
        /\ submitted = {} /\ chunk_texts = <<>> /\ export_sizes = <<>>
        /\ path \in {"none", "nokey"}
        /\ split_status = "idle"
        /\ ~InOrchestrator
        /\ pc # "crashed"
        /\ transcription_text = None
        /\ \A v \in DOMAIN saved : saved[v] = None
        /\ written = {}
        /\ \A n \in Names : transcriptions[n] = None
        /\ \A v \in 0..(video_i - 1) : video_status[v] \in {"extract_failed", "cleaned"}
        /\ pc \in {"manage", "save", "remove_audio"} => video_status[video_i] = "extracted"
        /\ pc = "finished" => video_i = Len(video_files_found)

\* A batch without a key ended with every video extracted and cleaned up.
C17_Witness ==
    /\ ~openai_api_key
    /\ pc = "finished"
    /\ \A v \in 0..(Len(video_files_found) - 1) : video_status[v] = "cleaned"
    /\ \A n \in Names : ~temp_audio[n].exists

\* The argument has no character left after the path, the extension, the
\* forbidden characters, underscores and spaces are taken away.
SanitizesToNothing(text) ==
    LET stem == splitext_root(basename(text))
    IN  \A k \in 1..Len(stem) : stem[k] \in ForbiddenChars \cup {"_", " "}

\* C18 (as stated): sanitize_filename(None) returns the name that
\* sanitize_filename("") returns, and so does every argument that sanitizes
\* to nothing.
C18_OneFallbackName ==
    sanitized_name # None =>
        /\ name = None => sanitized_name.text = sanitize_filename(Str(<<>>))
        /\ (name # None /\ SanitizesToNothing(name.text)) =>
              sanitized_name.text = sanitize_filename(Str(<<>>))

\* C19: every file handed to the transcription service, the whole track on
\* the direct path or a chunk on the split path, has an encoded size
\* strictly below the hard ceiling of 25 MiB; a chunk is at the transcribe
\* step only with such a size.
C19_SubmittedBelowCeiling ==
    /\ \A j \in submitted :
          /\ j + 1 <= Len(export_sizes)
          /\ export_sizes[j + 1] < 25 * 1024 * 1024
    /\ path = "direct" =>
          /\ export_sizes = <<AudioNow.size>>
          /\ AudioNow.size < 25 * 1024 * 1024
    /\ pc = "transcribe" => chunk_size < 25 * 1024 * 1024

\* A chunk one byte below the ceiling was sent, from a track of 25 MiB.
C19_Witness ==
    /\ path = "split"
    /\ AudioNow.size = 25 * 1024 * 1024
    /\ 0 \in submitted
    /\ export_sizes[1] = 25 * 1024 * 1024 - 1

\* C20 (as stated): the temporary audio handed to transcribe_audio_manager,
\* and so every transcript saved, comes from an extraction of the current
\* video in the current run.
C20_AudioOfThisVideo ==
    /\ pc \in {"manage", "save", "remove_audio"} \/ InOrchestrator =>
          AudioNow.src = video_i + 1
    /\ (pc = "remove_audio" /\ saved[video_i] # None) => AudioNow.src = video_i + 1

====
